---- MODULE Spec2Model ----
(***************************************************************************)
(* A model of XmlWriter (src/src/xml_writer.rs): the element-nesting state *)
(* machine, the escaper and the indentation, over a sink that takes one    *)
(* buffer per write call and either accepts it or fails.                   *)
(*                                                                         *)
(* A string argument that is only ever written raw is a TLA+ string; a     *)
(* text that goes through the escaper is a sequence of characters (one-    *)
(* character strings), because the escaper works character by character.   *)
(* An Option<&str> is <<>> (None) or <<s>> (Some(s)).                      *)
(***************************************************************************)
EXTENDS Naturals, Integers, Sequences, FiniteSets, TLC

VARIABLES
    stack,      \* XmlWriter.stack: Vec<&str>
    ns_stack,   \* XmlWriter.ns_stack: Vec<Option<&str>>
    opened,     \* XmlWriter.opened: bool
    pretty,     \* XmlWriter.pretty: pub bool
    namespace,  \* XmlWriter.namespace: pub Option<&str>
    out,        \* the sink: the buffers it accepted, one per write call, in order
    tags,       \* history: where in out begin_elem wrote "<" and end_elem wrote "</"
    fault,      \* "none", or the panic that aborted the program
    call,       \* history: the last public call, the state it was made in, its result
    nops,       \* history: number of public calls made
    nfail,      \* history: number of calls that returned an I/O error
    pc          \* position of the scripted caller (0 when the caller is free)

vars == <<stack, ns_stack, opened, pretty, namespace, out, tags, fault, call, nops, nfail, pc>>

(***************************************************************************)
(* Bounds of the exploration.                                              *)
(***************************************************************************)
MaxOps == 3
MaxFails == 1
MaxLen == 3
MaxKeep == 1

None == <<>>
Some(s) == <<s>>
NoFail == -1

Last(s) == s[Len(s)]
Front(s) == SubSeq(s, 1, Len(s) - 1)

RECURSIVE Flat(_)
Flat(s) == IF s = <<>> THEN "" ELSE Head(s) \o Flat(Tail(s))

(***************************************************************************)
(* The writer during one call: the struct's fields, the sink, and how the  *)
(* call is going.  status is "ok" while the call runs, "err" once a        *)
(* try!(..) has returned an io::Error, "panic" once it panicked; every     *)
(* statement after that point is skipped.  failAt is the sink's behaviour  *)
(* during this call: the number of the write attempt that fails, counted   *)
(* from 0 (NoFail: none does).  snap is the stacks at the failing write.   *)
(* shortAt is the number of the write attempt at which the sink accepts    *)
(* only the first `keep` bytes of the buffer and returns Ok with that      *)
(* count (NoFail: every buffer is accepted whole).  handed is the buffers  *)
(* the call has passed to the sink so far.                                 *)
(***************************************************************************)
EnterSink(failAt, shortAt, keep) ==
    [stack |-> stack, ns_stack |-> ns_stack, opened |-> opened, pretty |-> pretty,
     namespace |-> namespace, out |-> out, tags |-> tags,
     status |-> "ok", msg |-> "none", attempts |-> 0, failAt |-> failAt,
     snap |-> <<>>, shortAt |-> shortAt, keep |-> keep, handed |-> <<>>]

\* a call on a sink that accepts every buffer whole or fails
Enter(failAt) == EnterSink(failAt, NoFail, 0)

\* XmlWriter::new
New ==
    [stack |-> <<>>, ns_stack |-> <<>>, opened |-> FALSE, pretty |-> TRUE,
     namespace |-> None, out |-> <<>>]

\* the bytes of buf that the sink takes at this attempt when it returns Ok(n)
accepted(w, buf) ==
    IF w.attempts = w.shortAt /\ w.keep < Len(buf) THEN SubSeq(buf, 1, w.keep) ELSE buf

\* Write::write on the sink: it fails, or it accepts the buffer or a prefix
\* of it and returns the number of bytes accepted, which the caller of
\* try!(self.writer.write(..)) drops.
sink_write(w, buf) ==
    IF w.attempts = w.failAt
    THEN [w EXCEPT !.status = "err", !.attempts = @ + 1,
                   !.snap = <<w.stack, w.ns_stack>>,
                   !.handed = Append(@, buf)]
    ELSE [w EXCEPT !.out = Append(@, accepted(w, buf)), !.attempts = @ + 1,
                   !.handed = Append(@, buf)]

\* pub fn write(&mut self, text: &str) -> Result
write(w, text) == IF w.status # "ok" THEN w ELSE sink_write(w, text)

\* fn write_slice(&mut self, slice: &[u8]) -> Result
write_slice(w, slice) == IF w.status # "ok" THEN w ELSE sink_write(w, slice)

\* panic!(..) / Option::expect
panic(w, msg) == IF w.status # "ok" THEN w ELSE [w EXCEPT !.status = "panic", !.msg = msg]

\* history only: the buffer just accepted starts a tag of begin_elem / end_elem;
\* ns is the current namespace at that moment
mark(w, kind) ==
    IF w.status # "ok" THEN w
    ELSE [w EXCEPT !.tags = Append(@, [kind |-> kind, at |-> Len(w.out),
                                       ns |-> w.namespace])]

\* pub fn dtd(&mut self, encoding: &str) -> Result
dtd(w, encoding) ==
    LET w1 == write(w, "<?xml version=\"1.0\" encoding=\"")
        w2 == write(w1, encoding)
    IN  write(w2, "\" ?>\n")

\* for _ in 0..indent { try!(self.write(" ")); }
RECURSIVE spaces(_, _)
spaces(w, n) == IF n = 0 THEN w ELSE spaces(write(w, " "), n - 1)

\* indent with the depth test left out
indent_at_root(w) ==
    IF w.status # "ok" THEN w
    ELSE IF w.pretty
         THEN LET w1 == write(w, "\n")
              IN  IF w1.status # "ok" THEN w1 ELSE spaces(w1, Len(w1.stack) * 2)
         ELSE w

\* fn indent(&mut self) -> Result
indent(w) ==
    IF w.status # "ok" THEN w
    ELSE IF w.pretty /\ Len(w.stack) > 0
         THEN LET w1 == write(w, "\n")
              IN  IF w1.status # "ok" THEN w1 ELSE spaces(w1, Len(w1.stack) * 2)
         ELSE w

\* fn ns_prefix(&mut self, namespace: Option<&str>) -> Result
ns_prefix(w, ns) ==
    IF w.status # "ok" THEN w
    ELSE IF ns # None
         THEN write(write(w, ns[1]), ":")
         ELSE w

\* close_elem that leaves `opened` set
close_elem_keeps_flag(w) ==
    IF w.status # "ok" THEN w
    ELSE IF w.opened THEN write(w, ">") ELSE w

\* fn close_elem(&mut self) -> Result
close_elem(w) ==
    IF w.status # "ok" THEN w
    ELSE IF w.opened
         THEN LET w1 == write(w, ">")
              IN  IF w1.status # "ok" THEN w1 ELSE [w1 EXCEPT !.opened = FALSE]
         ELSE w

\* escape without the arm for the apostrophe
escape_char_no_apos(w, c, ident) ==
    CASE c = "\"" -> write(w, "&quot;")
      [] c = "&"  -> write(w, "&amp;")
      [] c = "<"  -> write(w, "&lt;")
      [] c = ">"  -> write(w, "&gt;")
      [] c = "\\" /\ ident -> write(w, "\\\\")
      [] OTHER -> write_slice(w, c)

\* escape doubling the backslash in both modes
escape_char_always_doubles(w, c, ident) ==
    CASE c = "\"" -> write(w, "&quot;")
      [] c = "'"  -> write(w, "&apos;")
      [] c = "&"  -> write(w, "&amp;")
      [] c = "<"  -> write(w, "&lt;")
      [] c = ">"  -> write(w, "&gt;")
      [] c = "\\" -> write(w, "\\\\")
      [] OTHER -> write_slice(w, c)

\* fn escape(&mut self, text: &str, ident: bool) -> Result: one character
escape_char(w, c, ident) ==
    CASE c = "\"" -> write(w, "&quot;")
      [] c = "'"  -> write(w, "&apos;")
      [] c = "&"  -> write(w, "&amp;")
      [] c = "<"  -> write(w, "&lt;")
      [] c = ">"  -> write(w, "&gt;")
      [] c = "\\" /\ ident -> write(w, "\\\\")
      [] OTHER -> write_slice(w, c)

\* fn escape(&mut self, text: &str, ident: bool) -> Result
RECURSIVE escape(_, _, _)
escape(w, text, ident) ==
    IF w.status # "ok" \/ text = <<>> THEN w
    ELSE escape(escape_char(w, Head(text), ident), Tail(text), ident)

\* attr without the test of `opened`
attr_unchecked(w, name, value) ==
    LET w1 == write(w, " ")
        w2 == write(w1, name)
        w3 == write(w2, "=\"")
        w4 == write(w3, value)
    IN  write(w4, "\"")

\* pub fn attr(&mut self, name: &str, value: &str) -> Result
attr(w, name, value) ==
    IF w.status # "ok" THEN w
    ELSE IF ~w.opened THEN panic(w, "attr")
    ELSE LET w1 == write(w, " ")
             w2 == write(w1, name)
             w3 == write(w2, "=\"")
             w4 == write(w3, value)
         IN  write(w4, "\"")

\* pub fn attr_esc(&mut self, name: &str, value: &str) -> Result
attr_esc(w, name, value) ==
    IF w.status # "ok" THEN w
    ELSE IF ~w.opened THEN panic(w, "attr")
    ELSE LET w1 == write(w, " ")
             w2 == escape(w1, name, TRUE)
             w3 == write(w2, "=\"")
             w4 == escape(w3, value, FALSE)
         IN  write(w4, "\"")

\* for item in ns_map { .. try!(self.attr(&name, item.1)); }
RECURSIVE ns_decl_items(_, _)
ns_decl_items(w, ns_map) ==
    IF w.status # "ok" \/ ns_map = <<>> THEN w
    ELSE LET item == Head(ns_map)
             name == IF item[1] # None THEN "xmlns:" \o item[1][1] ELSE "xmlns"
         IN  ns_decl_items(attr(w, name, item[2]), Tail(ns_map))

\* pub fn ns_decl(&mut self, ns_map: &Vec<(Option<&str>, &str)>) -> Result
ns_decl(w, ns_map) ==
    IF w.status # "ok" THEN w
    ELSE IF ~w.opened THEN panic(w, "ns_decl")
    ELSE ns_decl_items(w, ns_map)

\* pub fn elem(&mut self, name: &str) -> Result
elem(w, name) ==
    LET w1 == close_elem(w)
        w2 == indent(w1)
        w3 == write(w2, "<")
        w4 == ns_prefix(w3, w3.namespace)
        w5 == write(w4, name)
    IN  write(w5, "/>")

\* elem_text pushing its element on the stacks as begin_elem does
elem_text_nested(w, name, text) ==
    LET w1 == close_elem(w)
        w2 == indent(w1)
        wp == IF w2.status # "ok" THEN w2
              ELSE [w2 EXCEPT !.stack = Append(@, name),
                              !.ns_stack = Append(@, w2.namespace)]
        w3 == write(wp, "<")
        w4 == ns_prefix(w3, w3.namespace)
        w5 == write(w4, name)
        w6 == write(w5, ">")
        w7 == escape(w6, text, FALSE)
        w8 == write(w7, "</")
        w9 == write(w8, name)
    IN  write(w9, ">")

\* pub fn elem_text(&mut self, name: &str, text: &str) -> Result
elem_text(w, name, text) ==
    LET w1 == close_elem(w)
        w2 == indent(w1)
        w3 == write(w2, "<")
        w4 == ns_prefix(w3, w3.namespace)
        w5 == write(w4, name)
        w6 == write(w5, ">")
        w7 == escape(w6, text, FALSE)
        w8 == write(w7, "</")
        w9 == write(w8, name)
    IN  write(w9, ">")

\* self.stack.push(name); self.ns_stack.push(self.namespace);
push(w, name) ==
    IF w.status # "ok" THEN w
    ELSE [w EXCEPT !.stack = Append(@, name), !.ns_stack = Append(@, w.namespace)]

\* self.opened = true;
set_opened(w) == IF w.status # "ok" THEN w ELSE [w EXCEPT !.opened = TRUE]

\* begin_elem pushing only after its start tag is written
begin_elem_push_last(w, name) ==
    LET w1 == close_elem(w)
        w2 == indent(w1)
        w4 == mark(write(w2, "<"), "open")
        w5 == set_opened(w4)
        w6 == ns_prefix(w5, w5.namespace)
        w7 == write(w6, name)
    IN  push(w7, name)

\* begin_elem pushing the namespace only after its "<" is written
begin_elem_late_ns_push(w, name) ==
    LET w1 == close_elem(w)
        w2 == indent(w1)
        w3 == IF w2.status # "ok" THEN w2 ELSE [w2 EXCEPT !.stack = Append(@, name)]
        w4 == mark(write(w3, "<"), "open")
        w5 == IF w4.status # "ok" THEN w4
              ELSE [w4 EXCEPT !.ns_stack = Append(@, w4.namespace), !.opened = TRUE]
        w6 == ns_prefix(w5, w5.namespace)
    IN  write(w6, name)

\* pub fn begin_elem(&mut self, name: &'a str) -> Result
begin_elem(w, name) ==
    LET w1 == close_elem(w)
        w2 == indent(w1)
        w3 == push(w2, name)
        w4 == mark(write(w3, "<"), "open")
        w5 == set_opened(w4)
        w6 == ns_prefix(w5, w5.namespace)
    IN  write(w6, name)

\* end_elem reading the top of the stack without removing it
end_elem_pop_peek(w, ns) ==
    IF w.stack = <<>> THEN panic(w, "end_elem")
    ELSE LET name == Last(w.stack)
             w2 == mark(write(w, "</"), "close")
             w3 == ns_prefix(w2, ns)
             w4 == write(w3, name)
         IN  write(w4, ">")

\* end_elem removing the element only once its closing tag is written
end_elem_pop_late(w, ns) ==
    IF w.stack = <<>> THEN panic(w, "end_elem")
    ELSE LET name == Last(w.stack)
             w2 == mark(write(w, "</"), "close")
             w3 == ns_prefix(w2, ns)
             w4 == write(w3, name)
             w5 == write(w4, ">")
         IN  IF w5.status # "ok" THEN w5 ELSE [w5 EXCEPT !.stack = Front(@)]

\* end_elem taking the oldest open element instead of the newest
end_elem_pop_fifo(w, ns) ==
    IF w.stack = <<>> THEN panic(w, "end_elem")
    ELSE LET name == Head(w.stack)
             w1 == [w EXCEPT !.stack = Tail(@)]
             w2 == mark(write(w1, "</"), "close")
             w3 == ns_prefix(w2, ns)
             w4 == write(w3, name)
         IN  write(w4, ">")

\* end_elem indenting its closing tag
end_elem_pop_indented(w, ns) ==
    IF w.stack = <<>> THEN panic(w, "end_elem")
    ELSE LET name == Last(w.stack)
             w1 == indent([w EXCEPT !.stack = Front(@)])
             w2 == mark(write(w1, "</"), "close")
             w3 == ns_prefix(w2, ns)
             w4 == write(w3, name)
         IN  write(w4, ">")

\* end_elem from `match self.stack.pop()` on, ns being the popped namespace
end_elem_pop(w, ns) ==
    IF w.stack = <<>> THEN panic(w, "end_elem")
    ELSE LET name == Last(w.stack)
             w1 == [w EXCEPT !.stack = Front(@)]
             w2 == mark(write(w1, "</"), "close")
             w3 == ns_prefix(w2, ns)
             w4 == write(w3, name)
         IN  write(w4, ">")

\* end_elem writing the current namespace instead of the popped one
end_elem_current_ns(w) ==
    LET w1 == close_elem(w)
    IN  IF w1.status # "ok" THEN w1
        ELSE IF w1.ns_stack = <<>> THEN panic(w1, "end_elem_ns")
        ELSE end_elem_pop([w1 EXCEPT !.ns_stack = Front(@)], w1.namespace)

\* pub fn end_elem(&mut self) -> Result
end_elem(w) ==
    LET w1 == close_elem(w)
    IN  IF w1.status # "ok" THEN w1
        ELSE IF w1.ns_stack = <<>> THEN panic(w1, "end_elem_ns")
        ELSE end_elem_pop([w1 EXCEPT !.ns_stack = Front(@)], Last(w1.ns_stack))

\* pub fn empty_elem(&mut self, name: &'a str) -> Result
empty_elem(w, name) ==
    LET w1 == close_elem(w)
        w2 == indent(w1)
        w3 == write(w2, "<")
        w4 == ns_prefix(w3, w3.namespace)
        w5 == write(w4, name)
    IN  write(w5, "/>")

\* pub fn text(&mut self, text: &str) -> Result
text(w, t) == escape(close_elem(w), t, FALSE)

\* cdata without the call of close_elem
cdata_no_close(w, raw) ==
    LET w2 == write(w, "<![CDATA[")
        w3 == write(w2, raw)
    IN  write(w3, "]]>")

\* pub fn cdata(&mut self, cdata: &str) -> Result
cdata(w, raw) ==
    LET w1 == close_elem(w)
        w2 == write(w1, "<![CDATA[")
        w3 == write(w2, raw)
    IN  write(w3, "]]>")

\* pub fn comment(&mut self, comment: &str) -> Result
comment(w, t) ==
    LET w1 == close_elem(w)
        w2 == indent(w1)
        w3 == write(w2, "<!-- ")
        w4 == escape(w3, t, FALSE)
    IN  write(w4, " -->")

\* close going on after an end_elem failed, and returning the error at the end
RECURSIVE close_loop_all(_, _)
close_loop_all(w, n) ==
    IF w.status = "panic" \/ n = 0 THEN w
    ELSE LET r == end_elem([w EXCEPT !.status = "ok"])
             rest == close_loop_all(r, n - 1)
         IN  IF "err" \in {w.status, r.status} /\ rest.status # "panic"
             THEN [rest EXCEPT !.status = "err"]
             ELSE rest

\* for _ in 0..self.stack.len() { try!(self.end_elem()); }
RECURSIVE close_loop(_, _)
close_loop(w, n) ==
    IF w.status # "ok" \/ n = 0 THEN w ELSE close_loop(end_elem(w), n - 1)

\* close running its loop once more than the stack is deep
close_inclusive(w) == close_loop(w, Len(w.stack) + 1)

\* pub fn close(&mut self) -> Result
close(w) == close_loop(w, Len(w.stack))

(***************************************************************************)
(* The caller.  A public call is described by a record c; Run is the call. *)
(***************************************************************************)
Arg(op, name, value, t) == [op |-> op, name |-> name, value |-> value, text |-> t]

Run(c, w) ==
    CASE c.op = "begin_elem" -> begin_elem(w, c.name)
      [] c.op = "end_elem"   -> end_elem(w)
      [] c.op = "attr"       -> attr(w, c.name, c.value)
      [] c.op = "attr_esc"   -> attr_esc(w, c.text, c.value)
      [] c.op = "ns_decl"    -> ns_decl(w, c.value)
      [] c.op = "elem"       -> elem(w, c.name)
      [] c.op = "elem_text"  -> elem_text(w, c.name, c.text)
      [] c.op = "empty_elem" -> empty_elem(w, c.name)
      [] c.op = "text"       -> text(w, c.text)
      [] c.op = "cdata"      -> cdata(w, c.value)
      [] c.op = "comment"    -> comment(w, c.text)
      [] c.op = "close"      -> close(w)
      [] c.op = "dtd"        -> dtd(w, c.value)
      [] c.op = "write"      -> write(w, c.value)
      [] c.op = "escape"     -> escape(w, c.text, c.value)

\* The write attempts at which the sink may fail during a call that makes n
\* of them when none fails.
FailPoints(n) == {NoFail} \cup (IF nfail < MaxFails THEN 0 .. (n - 1) ELSE {})

\* The state after the call c ended as w.
Commit(c, w) ==
    /\ stack' = w.stack
    /\ ns_stack' = w.ns_stack
    /\ opened' = w.opened
    /\ out' = w.out
    /\ tags' = w.tags
    /\ fault' = (IF w.status = "panic" THEN w.msg ELSE "none")
    /\ call' = [op |-> c.op, name |-> c.name, value |-> c.value, text |-> c.text,
                res |-> w.status, attempts |-> w.attempts, snap |-> w.snap,
                pre_opened |-> opened, pre_stack |-> stack, pre_ns_stack |-> ns_stack,
                pre_len |-> Len(out), pretty |-> pretty, namespace |-> namespace,
                handed |-> w.handed]
    /\ nops' = nops + 1
    /\ nfail' = nfail + (IF w.status = "err" THEN 1 ELSE 0)
    /\ UNCHANGED <<pretty, namespace>>

\* One public call, to completion: the sink fails at one of its writes or at none.
Step(c) ==
    /\ fault = "none"
    /\ \E f \in FailPoints(Run(c, Enter(NoFail)).attempts) :
          Commit(c, Run(c, Enter(f)))

(***************************************************************************)
(* The arguments of the free caller.                                       *)
(***************************************************************************)
Names == {"a", "b"}
LeafName == "e"
Prefixes == {None, Some("p")}
SomeText == <<"'", "t">>
NsMap == << <<None, "u">>, <<Some("p"), "v">> >>

NoCall == [op |-> "new", name |-> "", value |-> "", text |-> <<>>,
           res |-> "ok", attempts |-> 0, snap |-> <<>>,
           pre_opened |-> FALSE, pre_stack |-> <<>>, pre_ns_stack |-> <<>>,
           pre_len |-> 0, pretty |-> TRUE, namespace |-> None, handed |-> <<>>]

Fresh ==
    /\ stack = New.stack
    /\ ns_stack = New.ns_stack
    /\ opened = New.opened
    /\ pretty = New.pretty
    /\ namespace = New.namespace
    /\ out = New.out
    /\ tags = <<>>
    /\ fault = "none"
    /\ call = NoCall
    /\ nops = 0
    /\ nfail = 0

Init == Fresh /\ pc = 0

Free == nops < MaxOps /\ UNCHANGED pc

BeginElem == \E name \in Names : Free /\ Step(Arg("begin_elem", name, "", <<>>))
EndElem == Free /\ Step(Arg("end_elem", "", "", <<>>))
Attr == Free /\ Step(Arg("attr", "k", "v", <<>>))
AttrEsc == Free /\ Step(Arg("attr_esc", "", <<"\"">>, <<"k">>))
NsDecl == Free /\ Step(Arg("ns_decl", "", NsMap, <<>>))
Elem == Free /\ Step(Arg("elem", LeafName, "", <<>>))
ElemText == Free /\ Step(Arg("elem_text", LeafName, "", SomeText))
EmptyElem == Free /\ Step(Arg("empty_elem", LeafName, "", <<>>))
Text == Free /\ Step(Arg("text", "", "", SomeText))
Cdata == Free /\ Step(Arg("cdata", "", "c", <<>>))
Comment == Free /\ Step(Arg("comment", "", "", SomeText))
Close == Free /\ Step(Arg("close", "", "", <<>>))
Dtd == Free /\ Step(Arg("dtd", "", "utf-8", <<>>))
Write == Free /\ Step(Arg("write", "", "r", <<>>))

\* xml.namespace = ..: an assignment to the public field, not a call
SetNamespace ==
    /\ fault = "none"
    /\ nops < MaxOps
    /\ \E ns \in Prefixes \ {namespace} : namespace' = ns
    /\ UNCHANGED <<stack, ns_stack, opened, pretty, out, tags, fault, call, nops, nfail, pc>>

\* xml.pretty = ..: an assignment to the public field, not a call
SetPretty ==
    /\ fault = "none"
    /\ nops < MaxOps
    /\ pretty' = ~pretty
    /\ UNCHANGED <<stack, ns_stack, opened, namespace, out, tags, fault, call, nops, nfail, pc>>

Next ==
    \/ BeginElem
    \/ EndElem
    \/ Attr
    \/ AttrEsc
    \/ NsDecl
    \/ Elem
    \/ ElemText
    \/ EmptyElem
    \/ Text
    \/ Cdata
    \/ Comment
    \/ Close
    \/ Dtd
    \/ Write
    \/ SetNamespace
    \/ SetPretty

Spec == Init /\ [][Next]_vars

(***************************************************************************)
(* The scripted caller: the call sequence of spec section 6 (the test      *)
(* `integration` without its namespace lines).  The test ignores the       *)
(* Result of every call, so the script goes on after an I/O error.         *)
(***************************************************************************)
Script ==
    << Arg("begin_elem", "OTDS", "", <<>>),
       Arg("comment", "", "",
           <<"n","i","c","e"," ","t","o"," ","s","e","e"," ","y","o","u">>),
       Arg("begin_elem", "node", "", <<>>),
       Arg("attr_esc", "", <<"\"","1","2","3","\"">>, <<"n","a","m","e">>),
       Arg("attr", "id", "abc", <<>>),
       Arg("text", "", "", <<"'","t","e","x","t","'">>),
       Arg("end_elem", "", "", <<>>),
       Arg("begin_elem", "stuff", "", <<>>),
       Arg("cdata", "", "blablab", <<>>),
       Arg("close", "", "", <<>>) >>

InitScenario == Fresh /\ pc = 1

ScenarioStep ==
    /\ pc \in 1 .. Len(Script)
    /\ Step(Script[pc])
    /\ pc' = pc + 1

NextScenario == ScenarioStep

SpecScenario == InitScenario /\ [][NextScenario]_vars

(***************************************************************************)
(* The escaper alone: one call of escape on a fresh writer, for every text *)
(* of at most MaxLen characters over Alphabet, in both modes.              *)
(***************************************************************************)
Alphabet == {"\"", "'", "&", "<", ">", "\\", "x", ";"}

TextsUpTo(n) == UNION {[1 .. k -> Alphabet] : k \in 0 .. n}

EscapeCall ==
    /\ nops = 0
    /\ \E t \in TextsUpTo(MaxLen), ident \in BOOLEAN : Step(Arg("escape", "", ident, t))
    /\ UNCHANGED pc

NextEscape == EscapeCall

SpecEscape == Init /\ [][NextEscape]_vars

(***************************************************************************)
(* The writer on a sink whose write may return Ok(n) with n smaller than   *)
(* the buffer, as io::Write::write may: at most one write of a call is     *)
(* short, and it takes the first 0 .. MaxKeep bytes.                       *)
(***************************************************************************)
ShortPoints(n) == {NoFail} \cup (0 .. (n - 1))

StepShort(c) ==
    /\ fault = "none"
    /\ \E s \in ShortPoints(Run(c, Enter(NoFail)).attempts), k \in 0 .. MaxKeep :
          /\ s = NoFail => k = 0
          /\ Commit(c, Run(c, EnterSink(NoFail, s, k)))

ShortBeginElem == \E name \in Names : Free /\ StepShort(Arg("begin_elem", name, "", <<>>))
ShortEndElem == Free /\ StepShort(Arg("end_elem", "", "", <<>>))
ShortAttr == Free /\ StepShort(Arg("attr", "k", "v", <<>>))
ShortText == Free /\ StepShort(Arg("text", "", "", SomeText))
ShortCdata == Free /\ StepShort(Arg("cdata", "", "c", <<>>))
ShortClose == Free /\ StepShort(Arg("close", "", "", <<>>))
ShortWrite == Free /\ StepShort(Arg("write", "", "r", <<>>))

NextShort ==
    \/ ShortBeginElem
    \/ ShortEndElem
    \/ ShortAttr
    \/ ShortText
    \/ ShortCdata
    \/ ShortClose
    \/ ShortWrite

SpecShort == Init /\ [][NextShort]_vars

(***************************************************************************)
(* Reading the output and the history.                                     *)
(***************************************************************************)
\* the buffers the sink accepted during the last call
Wrote == SubSeq(out, call.pre_len + 1, Len(out))

\* the tag whose "<" or "</" is out[i]: its prefix, its name, the index after it
Prefixed(i) == i + 2 <= Len(out) /\ out[i + 2] = ":"
PrefixAt(i) == IF Prefixed(i) THEN Some(out[i + 1]) ELSE None
NamePos(i) == IF Prefixed(i) THEN i + 3 ELSE i + 1
NameAt(i) == out[NamePos(i)]

\* the tags of begin_elem and end_elem paired as a parser pairs them: `open`
\* is the indices (into tags) of the start tags not yet closed, innermost
\* last; `pairs` the <<start, end>> index pairs; ok is FALSE when a closing
\* tag comes with no start tag open.
RECURSIVE Parse(_)
Parse(k) ==
    IF k = 0 THEN [ok |-> TRUE, open |-> <<>>, pairs |-> <<>>]
    ELSE LET r == Parse(k - 1)
         IN  IF ~r.ok THEN r
             ELSE IF tags[k].kind = "open"
                  THEN [r EXCEPT !.open = Append(@, k)]
                  ELSE IF r.open = <<>> THEN [r EXCEPT !.ok = FALSE]
                  ELSE [r EXCEPT !.open = Front(@),
                                 !.pairs = Append(@, <<Last(r.open), k>>)]

Parsed == Parse(Len(tags))

\* C1: after any calls in which no sink write failed (and no end_elem met an
\* empty stack: that aborts the program), a successful close() leaves the
\* element stack empty, every start tag of begin_elem has its closing tag,
\* and each closing tag is complete and names the innermost element open at
\* that point of the output.
C1_BalancedAfterClose ==
    (call.op = "close" /\ call.res = "ok" /\ nfail = 0) =>
        /\ stack = <<>>
        /\ Parsed.ok
        /\ Parsed.open = <<>>
        /\ \A i \in 1 .. Len(Parsed.pairs) :
              LET o == tags[Parsed.pairs[i][1]].at
                  c == tags[Parsed.pairs[i][2]].at
              IN  /\ NameAt(c) = NameAt(o)
                  /\ NamePos(c) + 1 <= Len(out)
                  /\ out[NamePos(c) + 1] = ">"

\* close() has closed two nested elements of different names
C1_Witness ==
    /\ call.op = "close" /\ call.res = "ok" /\ nfail = 0
    /\ Len(call.pre_stack) = 2
    /\ call.pre_stack[1] # call.pre_stack[2]
    /\ Len(Parsed.pairs) = 2

AttrOps == {"attr", "attr_esc", "ns_decl"}

\* C2: attr, attr_esc and ns_decl called with the open flag false panic and
\* write nothing; called with the flag true they do not panic and leave it
\* true (also when a sink write fails).
C2_AttrNeedsOpenTag ==
    call.op \in AttrOps =>
        IF call.pre_opened
        THEN call.res # "panic" /\ fault = "none" /\ opened
        ELSE call.res = "panic" /\ fault \in {"attr", "ns_decl"} /\ Len(out) = call.pre_len

\* an attribute call right after the start tag was terminated, with an
\* element still on the stack, has panicked
C2_Witness ==
    /\ call.op \in AttrOps /\ ~call.pre_opened
    /\ fault # "none"
    /\ stack # <<>>

\* C3: end_elem called with the element stack empty panics, having written
\* nothing and having changed neither stack.
C3_EndElemOnEmptyStack ==
    (call.op = "end_elem" /\ call.pre_stack = <<>>) =>
        /\ call.res = "panic"
        /\ fault \in {"end_elem_ns", "end_elem"}
        /\ Len(out) = call.pre_len
        /\ stack = call.pre_stack
        /\ ns_stack = call.pre_ns_stack

\* end_elem has panicked on a writer that had opened and closed an element
C3_Witness ==
    /\ call.op = "end_elem" /\ call.pre_stack = <<>>
    /\ fault # "none"
    /\ Len(tags) >= 2

\* C4: the closing tag of an element carries the prefix that was the current
\* namespace when begin_elem opened it, whatever the current namespace is
\* when it is closed and whatever was opened and closed in between.
C4_ClosingTagCarriesOpeningPrefix ==
    nfail = 0 =>
        /\ Parsed.ok
        /\ \A i \in 1 .. Len(Parsed.pairs) :
              PrefixAt(tags[Parsed.pairs[i][2]].at) = tags[Parsed.pairs[i][1]].ns

\* an element opened under prefix p was closed when the current namespace
\* was None, after an element nested in it was opened and closed without p
C4_Witness ==
    /\ nfail = 0 /\ namespace = None
    /\ \E i, j \in 1 .. Len(Parsed.pairs) :
          /\ Parsed.pairs[i][1] < Parsed.pairs[j][1]
          /\ Parsed.pairs[j][2] < Parsed.pairs[i][2]
          /\ tags[Parsed.pairs[i][1]].ns = Some("p")
          /\ tags[Parsed.pairs[j][1]].ns = None
          /\ PrefixAt(tags[Parsed.pairs[i][2]].at) = Some("p")

TerminatingOps ==
    {"text", "end_elem", "cdata", "comment", "begin_elem", "elem", "elem_text",
     "empty_elem"}

\* C5: a start tag of begin_elem gets exactly one ">", before any later
\* content.  A call of text, end_elem, cdata, comment, begin_elem or a leaf
\* element made with the flag set writes ">" first and nothing but that one
\* ">" for the tag, and clears the flag (begin_elem sets it again for its own
\* tag); made with the flag clear it does not start with ">"; and while the
\* flag is set no ">" follows the last start tag.
C5_ExactlyOneTerminator ==
    /\ (call.op \in TerminatingOps /\ Len(Wrote) >= 1) =>
          IF call.pre_opened
          THEN /\ Wrote[1] = ">"
               /\ Len(Wrote) >= 2 => Wrote[2] # ">"
               /\ call.op # "begin_elem" => ~opened
          ELSE Wrote[1] # ">"
    /\ (call.op \in TerminatingOps /\ call.pre_opened /\ call.res = "ok") =>
          Len(Wrote) >= 1
    /\ opened =>
          /\ tags # <<>>
          /\ Last(tags).kind = "open"
          /\ \A i \in Last(tags).at .. Len(out) : out[i] # ">"

\* text() after begin_elem and an attribute has terminated the start tag
C5_Witness ==
    /\ call.op = "text" /\ call.res = "ok" /\ call.pre_opened
    /\ Wrote[1] = ">"
    /\ out[call.pre_len] = "\""
    /\ ~opened

AllOtherOps ==
    {"begin_elem", "end_elem", "elem", "elem_text", "empty_elem", "text", "cdata",
     "comment", "close", "dtd", "write"}

\* C6 as claimed: every public operation other than attr, attr_esc and
\* ns_decl, dtd and the raw write included, called with the flag set writes
\* ">" before anything else and clears the flag (stated for runs in which no
\* sink write has failed).
C6_AllOpsTerminateOpenTag ==
    (nfail = 0 /\ call.op \in AllOtherOps /\ call.pre_opened /\ Len(Wrote) >= 1) =>
        /\ Wrote[1] = ">"
        /\ call.op # "begin_elem" => ~opened

\* C6 amended: begin_elem, end_elem, elem, elem_text, empty_elem, text, cdata,
\* comment and close, called with the flag set, write ">" before anything
\* else and clear the flag (begin_elem sets it again only with its own "<");
\* dtd and the raw write do not: they write into the open start tag and
\* leave the flag set.
C6_OpsTerminateOpenTag ==
    /\ (call.op \in AllOtherOps \ {"dtd", "write"} /\ call.pre_opened) =>
          /\ Len(Wrote) >= 1 => Wrote[1] = ">"
          /\ call.res = "ok" => Len(Wrote) >= 1
          /\ (Len(Wrote) >= 1 /\ opened) =>
                /\ call.op = "begin_elem"
                /\ Last(tags).at > call.pre_len + 1
    /\ (call.op \in {"dtd", "write"} /\ call.pre_opened) =>
          /\ opened
          /\ Len(Wrote) >= 1 => Wrote[1] # ">"

\* close() called with the flag set has terminated the start tag first
C6_Witness ==
    /\ call.op = "close" /\ call.pre_opened /\ call.res = "ok"
    /\ Wrote[1] = ">" /\ Wrote[2] = "</"
    /\ ~opened

IndentOps == {"begin_elem", "elem", "elem_text", "empty_elem", "comment"}
Lead(op) == IF op = "comment" THEN "<!-- " ELSE "<"

\* C8: with pretty on, a completed begin_elem, elem, elem_text, empty_elem or
\* comment wrote, after the ">" of an open tag if there was one, a newline
\* and 2 x d spaces and then its "<" (d the stack depth when it was called),
\* and for d = 0 its "<" at once; a comment as the first call on a new
\* writer gives exactly "<!-- " escaped-text " -->".
C8_Indentation ==
    /\ (call.op \in IndentOps /\ call.res = "ok" /\ call.pretty) =>
          LET k == IF call.pre_opened THEN 1 ELSE 0
              d == Len(call.pre_stack)
          IN  /\ k = 1 => Wrote[1] = ">"
              /\ IF d > 0
                 THEN /\ Wrote[k + 1] = "\n"
                      /\ \A j \in 1 .. 2 * d : Wrote[k + 1 + j] = " "
                      /\ Wrote[k + 2 * d + 2] = Lead(call.op)
                 ELSE Wrote[k + 1] = Lead(call.op)
    /\ (call.op = "comment" /\ call.res = "ok" /\ nops = 1) =>
          Flat(out) = "<!-- &apos;t -->"

\* begin_elem at depth 2 after an open tag, pretty on
C8_Witness ==
    /\ call.op = "begin_elem" /\ call.res = "ok" /\ call.pretty
    /\ call.pre_opened
    /\ Len(call.pre_stack) = 2
    /\ Len(Wrote) >= 7

\* the output of spec section 6 after each call of the script
Expected ==
    << "<OTDS",
       "<OTDS>\n  <!-- nice to see you -->",
       "<OTDS>\n  <!-- nice to see you -->\n  <node",
       "<OTDS>\n  <!-- nice to see you -->\n  <node name=\"&quot;123&quot;\"",
       "<OTDS>\n  <!-- nice to see you -->\n  <node name=\"&quot;123&quot;\" id=\"abc\"",
       "<OTDS>\n  <!-- nice to see you -->\n  <node name=\"&quot;123&quot;\" id=\"abc\">&apos;text&apos;",
       "<OTDS>\n  <!-- nice to see you -->\n  <node name=\"&quot;123&quot;\" id=\"abc\">&apos;text&apos;</node>",
       "<OTDS>\n  <!-- nice to see you -->\n  <node name=\"&quot;123&quot;\" id=\"abc\">&apos;text&apos;</node>\n  <stuff",
       "<OTDS>\n  <!-- nice to see you -->\n  <node name=\"&quot;123&quot;\" id=\"abc\">&apos;text&apos;</node>\n  <stuff><![CDATA[blablab]]>",
       "<OTDS>\n  <!-- nice to see you -->\n  <node name=\"&quot;123&quot;\" id=\"abc\">&apos;text&apos;</node>\n  <stuff><![CDATA[blablab]]></stuff></OTDS>" >>

\* C9: with no sink failure, the script of spec section 6 on a new writer
\* gives the literal output of that section, each call adding its bytes in
\* call order.
C9_Section6Output ==
    (pc \in 2 .. Len(Script) + 1 /\ nfail = 0) =>
        /\ fault = "none"
        /\ Flat(out) = Expected[pc - 1]

\* the script has run to its end without a sink failure
C9_Witness == pc = Len(Script) + 1 /\ nfail = 0 /\ stack = <<>>

Specials == {"\"", "'", "&", "<", ">"}
Entity(c) ==
    CASE c = "\"" -> "&quot;"
      [] c = "'"  -> "&apos;"
      [] c = "&"  -> "&amp;"
      [] c = "<"  -> "&lt;"
      [] c = ">"  -> "&gt;"

\* C10 as claimed: the escaper writes the entity for each of the five
\* characters and copies every other character unchanged.
C10_EscapeCopiesTheRest ==
    (call.op = "escape" /\ call.res = "ok") =>
        /\ Len(Wrote) = Len(call.text)
        /\ \A i \in 1 .. Len(call.text) :
              Wrote[i] = (IF call.text[i] \in Specials THEN Entity(call.text[i])
                          ELSE call.text[i])

\* C10 amended: the escaper writes, per input character and in order, the
\* entity for each of the five characters, two backslashes for a backslash
\* in identifier mode, and the character itself otherwise; no special
\* character is written as itself (an "&" is only ever written as the start
\* of an entity).
C10_Escape ==
    (call.op = "escape" /\ call.res = "ok") =>
        /\ Len(Wrote) = Len(call.text)
        /\ \A i \in 1 .. Len(call.text) :
              Wrote[i] = (IF call.text[i] \in Specials THEN Entity(call.text[i])
                          ELSE IF call.text[i] = "\\" /\ call.value THEN "\\\\"
                          ELSE call.text[i])
        /\ \A i \in 1 .. Len(Wrote) : Wrote[i] \notin Specials

\* a text with an apostrophe, an ampersand and a plain character was escaped
C10_Witness ==
    /\ call.op = "escape" /\ call.res = "ok"
    /\ call.text = <<"'", "&", "x">>
    /\ Flat(out) = "&apos;&amp;x"

\* the characters of a buffer the escaper writes
CharsOf(buf) ==
    CASE buf = "&quot;" -> <<"&", "q", "u", "o", "t", ";">>
      [] buf = "&apos;" -> <<"&", "a", "p", "o", "s", ";">>
      [] buf = "&amp;"  -> <<"&", "a", "m", "p", ";">>
      [] buf = "&lt;"   -> <<"&", "l", "t", ";">>
      [] buf = "&gt;"   -> <<"&", "g", "t", ";">>
      [] buf = "\\\\"   -> <<"\\", "\\">>
      [] OTHER -> <<buf>>

RECURSIVE CharsOfAll(_)
CharsOfAll(bufs) ==
    IF bufs = <<>> THEN <<>> ELSE CharsOf(Head(bufs)) \o CharsOfAll(Tail(bufs))

\* what escape, given the last call's output as its text, writes
EscapedAgain(ident) ==
    LET w == escape(Enter(NoFail), CharsOfAll(Wrote), ident)
    IN  SubSeq(w.out, Len(out) + 1, Len(w.out))

\* C11: in non-identifier mode the escaper writes every backslash as it is,
\* in identifier mode it writes two backslashes for each; so escaping in
\* identifier mode the output of an identifier-mode escape of a text with a
\* backslash gives another output (four backslashes for each).
C11_BackslashByMode ==
    (call.op = "escape" /\ call.res = "ok") =>
        /\ \A i \in 1 .. Len(call.text) :
              call.text[i] = "\\" =>
                  Wrote[i] = (IF call.value THEN "\\\\" ELSE "\\")
        /\ (call.value /\ \E i \in 1 .. Len(call.text) : call.text[i] = "\\") =>
              /\ Flat(EscapedAgain(TRUE)) # Flat(Wrote)
              /\ Len(CharsOfAll(EscapedAgain(TRUE))) > Len(CharsOfAll(Wrote))
        /\ (~call.value /\ call.text = <<"\\">>) =>
              Flat(EscapedAgain(FALSE)) = Flat(Wrote)

\* a text with a backslash was escaped in identifier mode
C11_Witness ==
    /\ call.op = "escape" /\ call.res = "ok" /\ call.value
    /\ call.text = <<"x", "\\">>
    /\ Flat(out) = "x\\\\"
    /\ Flat(EscapedAgain(TRUE)) = "x\\\\\\\\"

\* C12: in every reachable state, after a sink failure in the middle of a
\* call or a panic included, ns_stack is as long as stack.
C12_StacksInLockstep == Len(ns_stack) = Len(stack)

\* a begin_elem has failed after its pushes, or an end_elem after its pops
C12_Witness ==
    /\ nfail >= 1
    /\ call.res = "err"
    /\ call.op \in {"begin_elem", "end_elem"}
    /\ Len(stack) # Len(call.pre_stack)
    /\ Len(ns_stack) # Len(call.pre_ns_stack)

\* the number of start tags of begin_elem / closing tags of end_elem in out
TagCount(kind) == Cardinality({k \in 1 .. Len(tags) : tags[k].kind = kind})

\* C13: in every state reached without a sink failure the depth of the
\* element stack is the number of start tags written by begin_elem minus the
\* number of closing tags written by end_elem, the stack holds the names of
\* the start tags not yet closed, outermost first, and it is empty exactly
\* when every such start tag has its closing tag.
C13_DepthIsNesting ==
    nfail = 0 =>
        /\ \A k \in 1 .. Len(tags) :
              out[tags[k].at] = (IF tags[k].kind = "open" THEN "<" ELSE "</")
        /\ Len(stack) = TagCount("open") - TagCount("close")
        /\ Parsed.ok
        /\ Len(stack) = Len(Parsed.open)
        /\ \A i \in 1 .. Len(stack) : stack[i] = NameAt(tags[Parsed.open[i]].at)
        /\ (stack = <<>>) <=> (Parsed.open = <<>>)

\* two elements were opened and one was closed
C13_Witness ==
    /\ nfail = 0
    /\ TagCount("open") = 2 /\ TagCount("close") = 1
    /\ Len(stack) = 1

LeafOps == {"elem", "elem_text", "empty_elem", "text", "cdata", "comment"}

\* C14 as claimed: elem, elem_text, empty_elem, text, cdata and comment leave
\* both stacks as they were and leave the open flag false, whatever state
\* they were called in.
C14_LeafOpsClearFlag ==
    call.op \in LeafOps =>
        /\ stack = call.pre_stack
        /\ ns_stack = call.pre_ns_stack
        /\ ~opened

\* C14 amended: elem, elem_text, empty_elem, text, cdata and comment never
\* change either stack, and leave the open flag false unless the sink write
\* of the ">" that terminates the open tag failed: then the call has written
\* nothing, returns the error, and the flag is still set.
C14_LeafOpsFrame ==
    call.op \in LeafOps =>
        /\ stack = call.pre_stack
        /\ ns_stack = call.pre_ns_stack
        /\ call.res # "panic"
        /\ call.res = "ok" => ~opened
        /\ Len(Wrote) >= 1 => ~opened
        /\ opened => (call.pre_opened /\ call.res = "err" /\ Wrote = <<>>)

\* elem_text called in an open tag at depth 1 has completed
C14_Witness ==
    /\ call.op = "elem_text" /\ call.res = "ok"
    /\ call.pre_opened
    /\ Len(stack) = 1
    /\ ~opened

\* the buffers of the closing tag of an element opened under ns
ClosingTag(ns, name) ==
    <<"</">> \o (IF ns # None THEN <<ns[1], ":">> ELSE <<>>) \o <<name, ">">>

\* the closing tags of all elements of a stack, innermost first
RECURSIVE ClosingTags(_, _)
ClosingTags(names, nss) ==
    IF names = <<>> THEN <<>>
    ELSE ClosingTag(Last(nss), Last(names)) \o ClosingTags(Front(names), Front(nss))

\* C15: end_elem and close write no newline and no space, with pretty on or
\* off and at every depth: a completed end_elem wrote the ">" of the open
\* tag if there was one and then exactly "</", the popped prefix and ":" if
\* any, the popped name and ">"; a completed close wrote exactly the closing
\* tags of the whole stack, innermost first, one right after the other.
C15_ClosingTagsFlush ==
    /\ (call.op \in {"end_elem", "close"}) =>
          \A i \in 1 .. Len(Wrote) : Wrote[i] \notin {"\n", " "}
    /\ (call.op = "end_elem" /\ call.res = "ok") =>
          Wrote = (IF call.pre_opened THEN <<">">> ELSE <<>>)
                      \o ClosingTag(Last(call.pre_ns_stack), Last(call.pre_stack))
    /\ (call.op = "close" /\ call.res = "ok") =>
          Wrote = (IF call.pre_opened THEN <<">">> ELSE <<>>)
                      \o ClosingTags(call.pre_stack, call.pre_ns_stack)

\* end_elem in NoOpenTag, pretty on, has closed an element opened under p
C15_Witness ==
    /\ call.op = "end_elem" /\ call.res = "ok"
    /\ ~call.pre_opened /\ call.pretty
    /\ Wrote = <<"</", "p", ":", Last(call.pre_stack), ">">>
    /\ Len(out) > 5

\* the buffers of a qualified name under the namespace ns
QName(ns, name) == (IF ns # None THEN <<ns[1], ":">> ELSE <<>>) \o <<name>>

\* C16: a completed elem_text wrote a start tag and a closing tag with the
\* same qualified name: "<" q ">" right after the ">" of an open tag and the
\* indentation, and "</" q ">" as its last buffers, q being prefix ":" name
\* when a namespace is set and name otherwise.
C16_ElemTextSameQName ==
    (call.op = "elem_text" /\ call.res = "ok") =>
        LET q == QName(call.namespace, call.name)
            d == Len(call.pre_stack)
            k == (IF call.pre_opened THEN 1 ELSE 0)
                     + (IF call.pretty /\ d > 0 THEN 1 + 2 * d ELSE 0)
            n == Len(Wrote)
        IN  /\ SubSeq(Wrote, k + 1, k + Len(q) + 2) = <<"<">> \o q \o <<">">>
            /\ SubSeq(Wrote, n - Len(q) - 1, n) = <<"</">> \o q \o <<">">>

NestingOps == {"begin_elem", "end_elem", "close"}

C19_CloseIdempotent ==
    /\ (call.op = "close" /\ call.pre_stack = <<>>) =>
          /\ call.res = "ok"
          /\ fault = "none"
          /\ call.attempts = 0
          /\ Wrote = <<>>
          /\ stack = <<>>
          /\ ns_stack = call.pre_ns_stack
          /\ opened = call.pre_opened
    /\ (call.op = "close" /\ call.res = "ok") =>
          /\ ~opened
          /\ stack = <<>>
          /\ LET w == close(Enter(NoFail))
             IN  /\ w.status = "ok"
                 /\ w.attempts = 0
                 /\ w.out = out
                 /\ w.stack = stack
                 /\ w.ns_stack = ns_stack
                 /\ w.opened = opened
                 /\ w.tags = tags

\* a second close, directly after a close that was called in an open start
\* tag and closed one element
C19_Witness ==
    /\ call.op = "close" /\ call.res = "ok"
    /\ call.pre_stack = <<>>
    /\ nops = 3 /\ nfail = 0
    /\ Len(tags) = 2
    /\ tags[2].kind = "close"
    /\ out[tags[2].at - 1] = ">"
    /\ tags[2].at = Len(out) - 2

\* C20: whenever an operation returns success, every byte it handed to the
\* sink is in the sink's output, also on a sink that may accept only a prefix
\* of a buffer and return the accepted count: the bytes the sink took during
\* the call are the bytes of the buffers the call passed to it.
C20_SuccessDeliversEveryByte ==
    (call.op # "new" /\ call.res = "ok") => Flat(Wrote) = Flat(call.handed)

====
